---- MODULE Spec2Model ----
(***************************************************************************)
(* The COVID-19 asset pipeline of covid19/assets.py: seven assets that     *)
(* fetch remote datasets, reshape them and replace tables of a database.   *)
(*                                                                         *)
(* A data frame and a stored table are records [cols, rows]: cols is the   *)
(* sequence of column labels, rows is a bag (a function row |-> count) of  *)
(* tuples aligned with cols.  A relational table has no row order, so the  *)
(* order of a frame is not observable in what is stored.                   *)
(***************************************************************************)
EXTENDS Integers, Sequences, FiniteSets, Bags, TLC

VARIABLES
    executor,   \* "multiprocess": ready assets interleave; "in_process": one at a time, in order
    remote,     \* dataset -> the payload its URL serves during the current run
    schemas,    \* the schemas that exist in the database
    tables,     \* qualified table name -> stored table (the domain is the existing tables)
    status,     \* asset -> "pending" | "running" | "succeeded" | "failed" (current run)
    pc,         \* asset -> the statement it is at (where it stopped, once failed)
    df,         \* asset -> its local data frame
    absent,     \* asset -> what `schema_name not in get_schema_names` last evaluated to
    cause,      \* asset -> why it failed ("" while it has not)
    wrote,      \* asset -> storage objects it has created or written in the current run
    faults,     \* environment faults (fetch, read, storage) injected in the current run
    run,        \* number of the current run
    serial,     \* TRUE while no two assets of the current run have been in flight together
    snapshot,   \* the tables as the last run left them, when all of its assets succeeded
    prevRemote  \* the remote source as that run saw it

vars == <<executor, remote, schemas, tables, status, pc, df, absent, cause,
          wrote, faults, run, serial, snapshot, prevRemote>>

(***************************************************************************)
(* Bounds of the model.                                                    *)
(***************************************************************************)
MaxRuns == 2
MaxFaults == 1
MaxRows == 2

(***************************************************************************)
(* The asset graph.                                                        *)
(***************************************************************************)
FactIngests == {"pull_deaths", "pull_vaccinations", "pull_hospital_admissions",
                "pull_excess_mortality"}

DimBuilders == {"generate_calendar", "generate_countries"}

Assets == {"pull_cases"} \cup DimBuilders \cup FactIngests

\* Deps with an edge forgotten: the fact ingests wait for the calendar alone.
Deps_calendar_only(t) ==
    CASE t = "pull_cases" -> {}
      [] t \in DimBuilders -> {"pull_cases"}
      [] OTHER -> {"generate_calendar"}

\* Deps with the fact ingests hung on pull_cases, like the dimension builders.
Deps_cases_only(t) == IF t = "pull_cases" THEN {} ELSE {"pull_cases"}

Deps(t) ==
    CASE t = "pull_cases" -> {}
      [] t \in DimBuilders -> {"pull_cases"}
      [] OTHER -> {"generate_calendar", "generate_countries"}

\* The table an asset writes, and the schema of that table.
Target(t) ==
    CASE t = "pull_cases" -> "fact.daily_cases"
      [] t = "generate_calendar" -> "dim.calendar"
      [] t = "generate_countries" -> "dim.country"
      [] t = "pull_deaths" -> "fact.daily_deaths"
      [] t = "pull_vaccinations" -> "fact.daily_vaccinations"
      [] t = "pull_hospital_admissions" -> "fact.daily_hospital_admissions"
      [] OTHER -> "fact.daily_excess_mortality"

TargetSchema(t) == IF t \in DimBuilders THEN "dim" ELSE "fact"

\* The dataset an ingest fetches.
Url(t) ==
    CASE t = "pull_cases" -> "cases-tests"
      [] t = "pull_deaths" -> "deaths"
      [] t = "pull_vaccinations" -> "vaccinations"
      [] t = "pull_hospital_admissions" -> "hospital-admissions"
      [] OTHER -> "excess-mortality"

Datasets == {"cases-tests", "deaths", "vaccinations", "hospital-admissions",
             "excess-mortality"}

(***************************************************************************)
(* Data frames.                                                            *)
(***************************************************************************)
Range(s) == {s[i] : i \in DOMAIN s}

Positions(cols, label) == {i \in DOMAIN cols : cols[i] = label}

HasCol(f, label) == Positions(f.cols, label) # {}

\* The position of a label that occurs exactly once.
Pos(cols, label) == CHOOSE i \in DOMAIN cols : cols[i] = label

NullFrame == [cols |-> <<>>, rows |-> EmptyBag]

\* A sequence with the positions in `drop` removed.
RECURSIVE Without(_, _, _)
Without(s, drop, i) ==
    IF i > Len(s) THEN <<>>
    ELSE (IF i \in drop THEN <<>> ELSE <<s[i]>>) \o Without(s, drop, i + 1)

\* The sum of f over S.
Sum(f, S) ==
    LET RECURSIVE Acc(_)
        Acc(T) == IF T = {} THEN 0
                  ELSE LET x == CHOOSE x \in T : TRUE IN f[x] + Acc(T \ {x})
    IN Acc(S)

\* The bag of the images img[r] of the rows r of a bag.
MapRows(rows, img) ==
    LET out == {img[r] : r \in DOMAIN rows}
    IN [o \in out |-> Sum(rows, {r \in DOMAIN rows : img[r] = o})]

\* DataFrame.rename(columns={old: new}): every label equal to old becomes new;
\* a missing label is ignored.
Rename(f, old, new) ==
    [cols |-> [i \in DOMAIN f.cols |-> IF f.cols[i] = old THEN new ELSE f.cols[i]],
     rows |-> f.rows]

\* DataFrame.drop(columns=[label], errors="ignore").
Drop(f, label) ==
    LET gone == Positions(f.cols, label)
    IN [cols |-> Without(f.cols, gone, 1),
        rows |-> MapRows(f.rows, [r \in DOMAIN f.rows |-> Without(r, gone, 1)])]

\* DataFrame.merge(right) with no `on`: an inner join on the labels the two
\* frames share.  It raises when they share none, or when a shared label is
\* not unique in either frame.
Common(l, r) == Range(l.cols) \cap Range(r.cols)

MergeOk(l, r) ==
    /\ Common(l, r) # {}
    /\ \A c \in Common(l, r) :
          /\ Cardinality(Positions(l.cols, c)) = 1
          /\ Cardinality(Positions(r.cols, c)) = 1

Matches(l, r, x, y) ==
    \A c \in Common(l, r) : x[Pos(l.cols, c)] = y[Pos(r.cols, c)]

\* merge(how="left"): every left row is kept.
Merge_left(l, r) == l

Merge(l, r) ==
    LET keys == {i \in DOMAIN r.cols : r.cols[i] \in Common(l, r)}
        pairs == {<<x, y>> \in (DOMAIN l.rows) \X (DOMAIN r.rows) : Matches(l, r, x, y)}
        Joined(p) == p[1] \o Without(p[2], keys, 1)
        out == {Joined(p) : p \in pairs}
    IN [cols |-> l.cols \o Without(r.cols, keys, 1),
        rows |-> [o \in out |->
                    Sum([p \in pairs |-> l.rows[p[1]] * r.rows[p[2]]],
                        {p \in pairs : Joined(p) = o})]]

\* A frame from a sequence of rows.
Frame(cols, rs) ==
    [cols |-> cols,
     rows |-> [r \in Range(rs) |-> Cardinality({i \in DOMAIN rs : rs[i] = r})]]

\* The values of a column that occurs exactly once.
Values(f, label) == {r[Pos(f.cols, label)] : r \in DOMAIN f.rows}

(***************************************************************************)
(* Dates are numbered yyyymmdd; .dt.year, .dt.month and .dt.day take them  *)
(* apart.                                                                  *)
(***************************************************************************)
Year(d) == d \div 10000

Month(d) == (d \div 100) % 100

Day(d) == d % 100

\* df["year"], df["month"], df["day"] appended to a frame that has a date column.
AddDateParts(f) ==
    LET p == Pos(f.cols, "date")
    IN [cols |-> f.cols \o <<"year", "month", "day">>,
        rows |-> MapRows(f.rows, [r \in DOMAIN f.rows |->
                                  r \o <<Year(r[p]), Month(r[p]), Day(r[p])>>])]

(***************************************************************************)
(* The database.                                                           *)
(***************************************************************************)
\* pd.read_sql("select distinct [label] from <name>"): fails when the table or
\* the column does not exist.
db_run_query_ok(name, label) == name \in DOMAIN tables /\ HasCol(tables[name], label)

\* The query without its `distinct`.
db_run_query_all(name, label) ==
    LET t == tables[name]
        p == Pos(t.cols, label)
    IN [cols |-> <<label>>, rows |-> MapRows(t.rows, [r \in DOMAIN t.rows |-> <<r[p]>>])]

\* The query as the code issues it: each value once.
db_run_query(name, label) ==
    LET t == tables[name]
        p == Pos(t.cols, label)
    IN [cols |-> <<label>>,
        rows |-> SetToBag({<<r[p]>> : r \in DOMAIN t.rows})]

\* to_sql(if_exists="append"): the frame is added to a table that exists.
Appended(name, f) ==
    [n \in (DOMAIN tables) \cup {name} |->
        IF n # name THEN tables[n]
        ELSE IF name \in DOMAIN tables /\ tables[name].cols = f.cols
             THEN [cols |-> f.cols, rows |-> tables[name].rows (+) f.rows]
             ELSE f]

\* df.to_sql(if_exists="replace"): the table is dropped and created anew from
\* the frame.
Stored(name, f) ==
    [n \in (DOMAIN tables) \cup {name} |-> IF n = name THEN f ELSE tables[n]]

Dropped(name) == [n \in (DOMAIN tables) \ {name} |-> tables[n]]

\* What a write that fails may leave behind: nothing changed, the old table
\* dropped, or the new table created and still empty.
WriteResidue(name, f) ==
    {tables, Dropped(name), Stored(name, [cols |-> f.cols, rows |-> EmptyBag])}

(***************************************************************************)
(* The run: Dagster starts an asset once every asset it depends on has     *)
(* succeeded in the run; an asset whose ancestor failed is never started.  *)
(***************************************************************************)
\* The statements of each asset function, in program order.  db_create_schema
\* is its test ("schema_check") and its CreateSchema ("schema_create").  A fact
\* ingest's "ingest" is everything before its write: the fetch and the
\* reshaping, which act on the asset's own frame alone, then the two dimension
\* queries and the merges.
\* pull_cases without its db_create_schema("fact").
Program_without_schema(t) ==
    CASE t = "pull_cases" -> <<"fetch", "write">>
      [] t \in DimBuilders -> <<"query", "schema_check", "schema_create", "write">>
      [] OTHER -> <<"ingest", "write">>

\* pull_cases with db_create_schema("fact") moved before the fetch.
Program_schema_first(t) ==
    CASE t = "pull_cases" -> <<"schema_check", "schema_create", "fetch", "write">>
      [] t \in DimBuilders -> <<"query", "schema_check", "schema_create", "write">>
      [] OTHER -> <<"ingest", "write">>

Program(t) ==
    CASE t = "pull_cases" -> <<"fetch", "schema_check", "schema_create", "write">>
      [] t \in DimBuilders -> <<"query", "schema_check", "schema_create", "write">>
      [] OTHER -> <<"ingest", "write">>

\* The statement after statement p of asset t ("done" after the last).
After(t, p) ==
    LET i == Pos(Program(t), p)
    IN IF i = Len(Program(t)) THEN "done" ELSE Program(t)[i + 1]

Ready(t) == \A d \in Deps(t) : status[d] = "succeeded"

\* The in-process executor runs the ready assets one at a time, in the order
\* of their names.
Rank(t) ==
    CASE t = "pull_cases" -> 1
      [] t = "generate_calendar" -> 2
      [] t = "generate_countries" -> 3
      [] t = "pull_deaths" -> 4
      [] t = "pull_excess_mortality" -> 5
      [] t = "pull_hospital_admissions" -> 6
      [] OTHER -> 7

ExecutorAllows(t) ==
    executor = "in_process" =>
        /\ \A u \in Assets : status[u] # "running"
        /\ \A u \in Assets : status[u] = "pending" /\ Ready(u) => Rank(t) <= Rank(u)

Begin(t) == status[t] = "pending" /\ Ready(t) /\ ExecutorAllows(t)

Active(t) == status[t] = "running" \/ Begin(t)

At(t, p) == Active(t) /\ pc[t] = p

Overlaps(t) == status[t] = "pending" /\ \E u \in Assets \ {t} : status[u] = "running"

\* Asset t moves on to statement p with the local frame f.
Goto(t, p, f) ==
    /\ pc' = [pc EXCEPT ![t] = p]
    /\ df' = [df EXCEPT ![t] = f]
    /\ status' = [status EXCEPT ![t] = IF p = "done" THEN "succeeded" ELSE "running"]
    /\ serial' = (serial /\ ~Overlaps(t))
    /\ UNCHANGED cause

\* Asset t raises at the statement it is at.
Raise(t, why) ==
    /\ status' = [status EXCEPT ![t] = "failed"]
    /\ cause' = [cause EXCEPT ![t] = why]
    /\ serial' = (serial /\ ~Overlaps(t))
    /\ UNCHANGED <<pc, df>>

Constant == UNCHANGED <<executor, remote, run, snapshot, prevRemote>>

\* pd.read_json(url), then the renaming of the location column (and, for the
\* deaths, the dropping of the continent column).
Normalize(t, payload) ==
    Rename(IF t = "pull_deaths" THEN Drop(payload, "continent") ELSE payload,
           "location", "country")

Fetch(t) ==
    /\ At(t, "fetch")
    /\ Goto(t, After(t, "fetch"), Normalize(t, remote[Url(t)]))
    /\ UNCHANGED <<schemas, tables, absent, wrote, faults>>
    /\ Constant

\* The column a dimension builder selects.
KeyOf(t) == IF t = "generate_calendar" THEN "date" ELSE "country"

\* db_run_query("select distinct ... from fact.daily_cases"), and for the
\* calendar the year, month and day of each date.
Query(t) ==
    /\ At(t, "query")
    /\ IF db_run_query_ok("fact.daily_cases", KeyOf(t))
       THEN LET q == db_run_query("fact.daily_cases", KeyOf(t))
            IN Goto(t, After(t, "query"),
                    IF t = "generate_calendar" THEN AddDateParts(q) ELSE q)
       ELSE Raise(t, "read")
    /\ UNCHANGED <<schemas, tables, absent, wrote, faults>>
    /\ Constant

\* db_create_schema: `if schema_name not in conn.dialect.get_schema_names(conn)`.
db_create_schema_test(t) ==
    /\ At(t, "schema_check")
    /\ absent' = [absent EXCEPT ![t] = TargetSchema(t) \notin schemas]
    /\ Goto(t, IF TargetSchema(t) \notin schemas THEN After(t, "schema_check")
               ELSE After(t, "schema_create"), df[t])
    /\ UNCHANGED <<schemas, tables, wrote, faults>>
    /\ Constant

\* db_create_schema: conn.execute(CreateSchema(schema_name)); the database
\* refuses to create a schema that exists.
db_create_schema_execute(t) ==
    /\ At(t, "schema_create")
    /\ IF TargetSchema(t) \in schemas
       THEN Raise(t, "schema_exists") /\ UNCHANGED <<schemas, wrote>>
       ELSE /\ schemas' = schemas \cup {TargetSchema(t)}
            /\ wrote' = [wrote EXCEPT ![t] = @ \cup {TargetSchema(t)}]
            /\ Goto(t, After(t, "schema_create"), df[t])
    /\ UNCHANGED <<tables, absent, faults>>
    /\ Constant

\* A fact ingest up to its write: the fetch and the reshaping, the two
\* dimension queries, the two merges.
Ingest(t) ==
    /\ At(t, "ingest")
    /\ IF ~(db_run_query_ok("dim.calendar", "date") /\ db_run_query_ok("dim.country", "country"))
       THEN Raise(t, "read")
       ELSE LET fetched == Normalize(t, remote[Url(t)])
                df_date == db_run_query("dim.calendar", "date")
                df_country == db_run_query("dim.country", "country")
            IN IF MergeOk(fetched, df_date) /\ MergeOk(Merge(fetched, df_date), df_country)
               THEN Goto(t, After(t, "ingest"), Merge(Merge(fetched, df_date), df_country))
               ELSE Raise(t, "join")
    /\ UNCHANGED <<schemas, tables, absent, wrote, faults>>
    /\ Constant

\* write_data_to_db: the frame replaces the table.  The database refuses a
\* table in a schema that does not exist.
write_data_to_db(t) ==
    /\ At(t, "write")
    /\ IF TargetSchema(t) \in schemas
       THEN /\ tables' = Stored(Target(t), df[t])
            /\ wrote' = [wrote EXCEPT ![t] = @ \cup {Target(t)}]
            /\ Goto(t, After(t, "write"), df[t])
       ELSE /\ Raise(t, "storage")
            /\ UNCHANGED <<tables, wrote>>
    /\ UNCHANGED <<schemas, absent, faults>>
    /\ Constant

\* The environment fails the call an asset is about to make: the network at a
\* fetch, the database at a query, a schema statement or a write.
FaultKinds(p) ==
    CASE p = "fetch" -> {"fetch"}
      [] p = "query" -> {"read"}
      [] p = "ingest" -> {"fetch", "read"}
      [] OTHER -> {"storage"}

EnvFault(t) ==
    /\ Active(t)
    /\ faults < MaxFaults
    /\ faults' = faults + 1
    /\ \E why \in FaultKinds(pc[t]) : Raise(t, why)
    /\ IF pc[t] = "write" /\ TargetSchema(t) \in schemas
       THEN \E left \in WriteResidue(Target(t), df[t]) :
               /\ tables' = left
               /\ wrote' = [wrote EXCEPT ![t] =
                               IF left = tables THEN @ ELSE @ \cup {Target(t)}]
       ELSE UNCHANGED <<tables, wrote>>
    /\ UNCHANGED <<schemas, absent>>
    /\ Constant

(***************************************************************************)
(* The seven assets.                                                       *)
(***************************************************************************)
pull_cases ==
    \/ Fetch("pull_cases")
    \/ db_create_schema_test("pull_cases")
    \/ db_create_schema_execute("pull_cases")
    \/ write_data_to_db("pull_cases")

generate_calendar ==
    \/ Query("generate_calendar")
    \/ db_create_schema_test("generate_calendar")
    \/ db_create_schema_execute("generate_calendar")
    \/ write_data_to_db("generate_calendar")

generate_countries ==
    \/ Query("generate_countries")
    \/ db_create_schema_test("generate_countries")
    \/ db_create_schema_execute("generate_countries")
    \/ write_data_to_db("generate_countries")

pull_deaths ==
    \/ Ingest("pull_deaths")
    \/ write_data_to_db("pull_deaths")

pull_vaccinations ==
    \/ Ingest("pull_vaccinations")
    \/ write_data_to_db("pull_vaccinations")

pull_hospital_admissions ==
    \/ Ingest("pull_hospital_admissions")
    \/ write_data_to_db("pull_hospital_admissions")

pull_excess_mortality ==
    \/ Ingest("pull_excess_mortality")
    \/ write_data_to_db("pull_excess_mortality")

(***************************************************************************)
(* The remote source.                                                      *)
(***************************************************************************)
\* The snapshots of the remote source the pipeline is run on: the full files,
\* the cases file shrunk to one row, the deaths file without its date column.
CasesFull ==
    Frame(<<"location", "date", "new_cases">>,
          <<<<"A", 20210101, 5>>, <<"B", 20210102, 6>>, <<"A", 20210101, 7>>>>)

CasesShrunk == Frame(<<"location", "date", "new_cases">>, <<<<"A", 20210101, 5>>>>)

DeathsFull ==
    Frame(<<"location", "continent", "date", "new_deaths">>,
          <<<<"A", "EU", 20210101, 1>>, <<"A", "EU", 20210103, 2>>,
            <<"B", "EU", 20210102, 3>>>>)

DeathsUndated == Frame(<<"location", "new_deaths">>, <<<<"A", 1>>>>)

OtherPayload ==
    Frame(<<"location", "date", "value">>,
          <<<<"B", 20210102, 9>>, <<"C", 20210101, 4>>>>)

Snapshot(c, x) ==
    [d \in Datasets |-> CASE d = "cases-tests" -> c
                          [] d = "deaths" -> x
                          [] OTHER -> OtherPayload]

RemoteChoices ==
    {Snapshot(CasesFull, DeathsFull), Snapshot(CasesShrunk, DeathsFull),
     Snapshot(CasesFull, DeathsUndated)}

\* Every payload of at most MaxRows rows over a small universe, in each
\* column layout: with and without the location column, with a country
\* column beside it, with and without the continent and the date.
Seqs(S, n) == UNION {[1..k -> S] : k \in 0..n}

Project(b, cols) ==
    [i \in DOMAIN cols |->
        CASE cols[i] \in {"location", "country"} -> b[1]
          [] cols[i] = "date" -> b[2]
          [] cols[i] = "continent" -> "EU"
          [] OTHER -> b[3]]

Payloads(layouts, universe) ==
    {Frame(cols, [i \in DOMAIN rs |-> Project(rs[i], cols)]) :
        cols \in layouts, rs \in Seqs(universe, MaxRows)}

CasesLayouts == {<<"location", "date", "new_cases">>, <<"date", "new_cases">>}

FactLayouts ==
    {<<"location", "continent", "date", "value">>,
     <<"location", "date", "value">>,
     <<"location", "country", "date", "value">>,
     <<"location", "value">>}

CasesUniverse == {"A", "B"} \X {20210101, 20210102} \X {5}

FactUniverse == {"A", "C"} \X {20210102, 20210203} \X {1}

FnRemotes ==
    {[d \in Datasets |-> IF d = "cases-tests" THEN c ELSE x] :
        c \in Payloads(CasesLayouts, CasesUniverse),
        x \in Payloads(FactLayouts, FactUniverse)}

(***************************************************************************)
(* Runs.                                                                   *)
(***************************************************************************)
Fresh ==
    /\ status = [t \in Assets |-> "pending"]
    /\ pc = [t \in Assets |-> Program(t)[1]]
    /\ df = [t \in Assets |-> NullFrame]
    /\ absent = [t \in Assets |-> FALSE]
    /\ cause = [t \in Assets |-> ""]
    /\ wrote = [t \in Assets |-> {}]
    /\ serial = TRUE

AllSucceeded == \A t \in Assets : status[t] = "succeeded"

RunOver == \A t \in Assets : ~Active(t)

\* The next launch of the job, once the run is over.
RunStart ==
    /\ RunOver
    /\ run < MaxRuns
    /\ run' = run + 1
    /\ remote' \in RemoteChoices
    /\ snapshot' = [ok |-> AllSucceeded, tables |-> tables]
    /\ prevRemote' = remote
    /\ status' = [t \in Assets |-> "pending"]
    /\ pc' = [t \in Assets |-> Program(t)[1]]
    /\ df' = [t \in Assets |-> NullFrame]
    /\ absent' = [t \in Assets |-> FALSE]
    /\ cause' = [t \in Assets |-> ""]
    /\ wrote' = [t \in Assets |-> {}]
    /\ serial' = TRUE
    /\ UNCHANGED <<executor, schemas, tables, faults>>

Init ==
    /\ executor \in {"multiprocess", "in_process"}
    /\ remote \in RemoteChoices
    /\ schemas = {}
    /\ tables = [n \in {} |-> NullFrame]
    /\ faults = 0
    /\ run = 1
    /\ snapshot = [ok |-> FALSE, tables |-> tables]
    /\ prevRemote = remote
    /\ Fresh

Next ==
    \/ pull_cases
    \/ generate_calendar
    \/ generate_countries
    \/ pull_deaths
    \/ pull_vaccinations
    \/ pull_hospital_admissions
    \/ pull_excess_mortality
    \/ \E t \in Assets : EnvFault(t)
    \/ RunStart

Spec == Init /\ [][Next]_vars

\* One run of the in-process executor on every small payload.
InitFn ==
    /\ executor = "in_process"
    /\ remote \in FnRemotes
    /\ schemas = {}
    /\ tables = [n \in {} |-> NullFrame]
    /\ faults = 0
    /\ run = 1
    /\ snapshot = [ok |-> FALSE, tables |-> tables]
    /\ prevRemote = remote
    /\ Fresh

NextFn ==
    \/ pull_cases
    \/ generate_calendar
    \/ generate_countries
    \/ pull_deaths
    \/ pull_vaccinations
    \/ pull_hospital_admissions
    \/ pull_excess_mortality

SpecFn == InitFn /\ [][NextFn]_vars

(***************************************************************************)
(* Properties.                                                             *)
(***************************************************************************)
Ingests == {"pull_cases"} \cup FactIngests

\* What each asset must wait for, and what must wait for it, as the
\* specification of the pipeline states them.
Prerequisites(t) ==
    IF t \in DimBuilders THEN {"pull_cases"}
    ELSE IF t \in FactIngests THEN {"generate_calendar", "generate_countries"}
    ELSE {}

Dependents(t) ==
    IF t = "pull_cases" THEN Assets \ {"pull_cases"}
    ELSE IF t \in DimBuilders THEN FactIngests
    ELSE {}

\* C1: an asset that has started in the run (it is no longer pending) has all of
\* its prerequisites succeeded: the dimension builders start only after
\* pull_cases has succeeded, the fact ingests only after both dimension
\* builders have succeeded, whatever the interleaving.
C1_DependencyOrdering ==
    \A t \in Assets :
        status[t] # "pending" => \A d \in Prerequisites(t) : status[d] = "succeeded"

\* Two fact ingests are in flight together, after both dimension builders.
C1_Witness ==
    /\ executor = "multiprocess"
    /\ ~serial
    /\ status["pull_deaths"] = "running"
    /\ status["pull_vaccinations"] = "running"

\* C3: once an asset has failed, none of the assets that depend on it,
\* directly or transitively, has started in the run.
C3_FailurePropagation ==
    \A t \in Assets :
        status[t] = "failed" => \A u \in Dependents(t) : status[u] = "pending"

\* The run is over with one dimension builder failed, the other succeeded and
\* no fact ingest started.
C3_Witness ==
    /\ RunOver
    /\ status["generate_countries"] = "failed"
    /\ status["generate_calendar"] = "succeeded"
    /\ \A u \in FactIngests : status[u] = "pending"

\* C4: the assets of a wave may be interleaved in any way: no asset fails
\* because of the interleaving, that is, none has its CreateSchema refused
\* for a schema that an asset of its wave created after it tested for it.
C4_NoInterleavingFailure == \A t \in Assets : cause[t] # "schema_exists"

\* C9: an asset at its write finds the schema of its table in the database,
\* and an asset of a run whose assets ran one at a time never reaches
\* CreateSchema for a schema that exists.
C9_SchemaBeforeWrite ==
    /\ \A t \in Assets :
          status[t] # "pending" /\ pc[t] = "write" => TargetSchema(t) \in schemas
    /\ serial =>
          \A t \in Assets :
              /\ cause[t] # "schema_exists"
              /\ status[t] = "running" /\ pc[t] = "schema_create"
                    => TargetSchema(t) \notin schemas

\* A fact ingest, which creates no schema, is at its write in a run whose
\* assets ran one at a time; pull_cases created the schema in this run.
C9_Witness ==
    /\ serial
    /\ "fact" \in wrote["pull_cases"]
    /\ \E t \in FactIngests : status[t] = "running" /\ pc[t] = "write"

\* C10: an ingest that failed at its fetch, or a fact ingest that failed at a
\* dimension query or at the join, has created no schema and written no
\* table in the run, and its target is as the run found it.
C10_PreWriteFailure ==
    \A t \in Ingests :
        status[t] = "failed" /\ cause[t] \in {"fetch", "read", "join"} =>
            /\ wrote[t] = {}
            /\ Target(t) \in DOMAIN tables <=> Target(t) \in DOMAIN snapshot.tables
            /\ Target(t) \in DOMAIN tables =>
                  tables[Target(t)] = snapshot.tables[Target(t)]

\* pull_deaths failed at the join in a second run, and the deaths table of the
\* first run is still stored, rows and all.
C10_Witness ==
    /\ run = 2
    /\ status["pull_deaths"] = "failed"
    /\ cause["pull_deaths"] = "join"
    /\ "fact.daily_deaths" \in DOMAIN tables
    /\ tables["fact.daily_deaths"].rows # EmptyBag

\* The values a stored table holds in a column (none when the table or the
\* column is missing).
Held(name, label) ==
    IF db_run_query_ok(name, label) THEN Values(tables[name], label) ELSE {}

\* C2: in every state, every row of every stored downstream fact table has its
\* date among the dates of the stored dim.calendar and its country among the
\* countries of the stored dim.country.
C2_ReferentialIntegrity ==
    \A t \in FactIngests :
        Target(t) \in DOMAIN tables /\ tables[Target(t)].rows # EmptyBag =>
            /\ Held(Target(t), "date") \subseteq Held("dim.calendar", "date")
            /\ Held(Target(t), "country") \subseteq Held("dim.country", "country")

\* C5: a run in which every asset succeeded, after a run in which every asset
\* succeeded on the same remote source, leaves every table as that run left
\* it; and the table of an asset that succeeded holds the frame the asset
\* wrote and nothing else.
C5_IdempotentReplace ==
    /\ AllSucceeded /\ snapshot.ok /\ remote = prevRemote => tables = snapshot.tables
    /\ \A t \in Assets : status[t] = "succeeded" =>
          Target(t) \in DOMAIN tables /\ tables[Target(t)] = df[t]

\* The second of two runs on one remote source has succeeded throughout, and
\* the seven tables are stored, rows and all.
C5_Witness ==
    /\ run = 2
    /\ AllSucceeded
    /\ snapshot.ok
    /\ remote = prevRemote
    /\ DOMAIN tables = {Target(t) : t \in Assets}
    /\ \A t \in Assets : tables[Target(t)].rows # EmptyBag

\* C6: the table of an ingest that completed has no location column and has a
\* country column, and the deaths table has no continent column.
C6_ColumnNormalization ==
    \A t \in Ingests :
        status[t] = "succeeded" =>
            /\ ~HasCol(tables[Target(t)], "location")
            /\ HasCol(tables[Target(t)], "country")
            /\ t = "pull_deaths" => ~HasCol(tables[Target(t)], "continent")

\* The fetched rows a fact ingest is to keep: those whose date is a date of
\* dim.calendar and whose country is a country of dim.country, each as often
\* as it occurs.
Surviving(t) ==
    LET f == Normalize(t, remote[Url(t)])
        d == Pos(f.cols, "date")
        c == Pos(f.cols, "country")
    IN [cols |-> f.cols,
        rows |-> [r \in {x \in DOMAIN f.rows :
                             /\ x[d] \in Held("dim.calendar", "date")
                             /\ x[c] \in Held("dim.country", "country")} |-> f.rows[r]]]

Joinable(t) ==
    LET f == Normalize(t, remote[Url(t)])
    IN /\ Cardinality(Positions(f.cols, "date")) = 1
       /\ Cardinality(Positions(f.cols, "country")) = 1

\* C7: the table of a fact ingest that completed holds exactly the surviving
\* rows, each as often as the source has it and with every column unchanged;
\* and a fact ingest whose payload has its date and country columns does not
\* fail, whatever rows the join drops.
C7_JoinSemantics ==
    \A t \in FactIngests :
        /\ status[t] = "succeeded" => tables[Target(t)] = Surviving(t)
        /\ status[t] = "failed" => ~Joinable(t)

\* A fact ingest completed having dropped a row and kept a row whose country
\* and date do not occur together in any row of fact.daily_cases.
C7_Witness ==
    \E t \in FactIngests :
        /\ status[t] = "succeeded"
        /\ DOMAIN tables[Target(t)].rows # DOMAIN Normalize(t, remote[Url(t)]).rows
        /\ HasCol(tables["fact.daily_cases"], "country")
        /\ \E r \in DOMAIN tables[Target(t)].rows :
              LET kept == tables[Target(t)]
                  cases == tables["fact.daily_cases"]
              IN \A x \in DOMAIN cases.rows :
                    ~(/\ x[Pos(cases.cols, "country")] = r[Pos(kept.cols, "country")]
                      /\ x[Pos(cases.cols, "date")] = r[Pos(kept.cols, "date")])

\* C8: once a dimension builder has completed, its table has exactly one row
\* for each distinct value of its column in the stored fact.daily_cases; a row
\* of dim.calendar carries the year, month and day of its date.
C8_DimensionDerivation ==
    /\ status["generate_calendar"] = "succeeded" =>
          LET cal == tables["dim.calendar"]
          IN /\ cal.cols = <<"date", "year", "month", "day">>
             /\ {r[1] : r \in DOMAIN cal.rows} = Held("fact.daily_cases", "date")
             /\ Cardinality(DOMAIN cal.rows)
                   = Cardinality(Held("fact.daily_cases", "date"))
             /\ \A r \in DOMAIN cal.rows :
                   /\ cal.rows[r] = 1
                   /\ r[2] * 10000 + r[3] * 100 + r[4] = r[1]
                   /\ r[3] \in 1..12
                   /\ r[4] \in 1..31
    /\ status["generate_countries"] = "succeeded" =>
          LET ctry == tables["dim.country"]
          IN /\ ctry.cols = <<"country">>
             /\ {r[1] : r \in DOMAIN ctry.rows} = Held("fact.daily_cases", "country")
             /\ \A r \in DOMAIN ctry.rows : ctry.rows[r] = 1

\* Both dimension builders completed on a fact.daily_cases of two rows with
\* one date and two countries.
C8_Witness ==
    /\ status["generate_calendar"] = "succeeded"
    /\ status["generate_countries"] = "succeeded"
    /\ BagCardinality(tables["fact.daily_cases"].rows) = 2
    /\ Cardinality(DOMAIN tables["dim.calendar"].rows) = 1
    /\ Cardinality(DOMAIN tables["dim.country"].rows) = 2
====
